---- MODULE Spec2Model ----
(***************************************************************************)
(* The per-channel linear demodulator loop of ka9q-radio (src/linear.c,    *)
(* demod_linear) with the configuration normalisation of loadconfig        *)
(* (src/main.c).  The thread first rebuilds its filter output under the    *)
(* status lock; one loop iteration is then five steps: downconvert, the    *)
(* entry into the PLL pass, the PLL pass with the lock detector and the    *)
(* phase unwrapping, the AGC decision, and the final pass with             *)
(* send_output.  The lifecycle manager, the control path and the status    *)
(* thread act on the channel from outside.  The encoders, decoders and     *)
(* the option scanner of the status packets (src/status.c) are modelled    *)
(* as calls on their own, with integers as sequences of bytes.             *)
(*                                                                         *)
(* C float values that are never negative (gains, amplitudes, powers) are  *)
(* modelled in the log domain: a finite positive value is an integer       *)
(* exponent in EMin..EMax counted in steps of 1/Oct octave, and the three  *)
(* special values +0, +Inf and NaN are the integers FZero, FInf and FNaN.  *)
(* Products and quotients are exact sums and differences of exponents      *)
(* until they leave EMin..EMax, where they become +Inf or +0 as IEEE       *)
(* overflow and underflow do.  The range reaches further below 1 than      *)
(* above it, as the denormals of IEEE single precision make it.  Mantissa  *)
(* rounding is not modelled.                                               *)
(***************************************************************************)
EXTENDS Integers, Sequences, FiniteSets, TLC

\* ---------------------------------------------------------------- bounds
MaxN == 2        \* largest block size N (samples per block)
MaxHang == 2     \* largest configured hang time, in blocks
ERange == 6      \* finite floats span 2^-(2 ERange) .. 2^+ERange
MaxSig == 4      \* largest in-phase power sum of a block
HalfTurn == 2    \* phase steps in pi: a phase is an integer in -HalfTurn .. HalfTurn
MaxRot == 2      \* largest magnitude of the rotation counter that is explored

\* ------------------------------------------------------- float arithmetic
RECURSIVE Fact(_)
Fact(n) == IF n <= 1 THEN 1 ELSE n * Fact(n - 1)

\* Exponent steps per octave: every N-th root of a whole-octave ratio is exact.
Oct == Fact(MaxN)
EMax == ERange * Oct
EMin == -(2 * ERange * Oct)
FZero == EMin - 1
FInf == EMax + 1
FNaN == EMax + 2
FOne == 0
FTwo == Oct

Float == (EMin .. EMax) \cup {FZero, FInf, FNaN}
IsFinite(a) == a >= EMin /\ a <= EMax

\* Result of an exact exponent that may have left the finite range.
FRange(e) == IF e > EMax THEN FInf ELSE IF e < EMin THEN FZero ELSE e

\* a * b
FMul(a, b) ==
  IF a = FNaN \/ b = FNaN THEN FNaN
  ELSE IF (a = FZero /\ b = FInf) \/ (a = FInf /\ b = FZero) THEN FNaN
  ELSE IF a = FZero \/ b = FZero THEN FZero
  ELSE IF a = FInf \/ b = FInf THEN FInf
  ELSE FRange(a + b)

\* a / b
FDiv(a, b) ==
  IF a = FNaN \/ b = FNaN THEN FNaN
  ELSE IF (a = FZero /\ b = FZero) \/ (a = FInf /\ b = FInf) THEN FNaN
  ELSE IF a = FZero \/ b = FInf THEN FZero
  ELSE IF a = FInf \/ b = FZero THEN FInf
  ELSE FRange(a - b)

\* a > b, a < b, a == b: every comparison with a NaN is false
FGt(a, b) == a # FNaN /\ b # FNaN /\ a > b
FLt(a, b) == a # FNaN /\ b # FNaN /\ a < b
FEq(a, b) == a # FNaN /\ b # FNaN /\ a = b

\* a + b for non-negative a, b; a sum of two different finite values is
\* truncated to the larger one, a + a is one octave above a.
FAdd(a, b) ==
  IF a = FNaN \/ b = FNaN THEN FNaN
  ELSE IF a = FInf \/ b = FInf THEN FInf
  ELSE IF a = FZero THEN b
  ELSE IF b = FZero THEN a
  ELSE IF a = b THEN FRange(a + Oct)
  ELSE IF a > b THEN a ELSE b

\* acc += x on a running sum of non-negative terms. Of a running sum only
\* the class is kept: zero, positive and finite (written as the smallest
\* positive float), +Inf or NaN.
Accumulate(acc, x) ==
  LET sum == FAdd(acc, x)
  IN IF IsFinite(sum) THEN EMin ELSE sum

\* sqrtf(a)
FSqrt(a) == IF IsFinite(a) THEN a \div 2 ELSE a

\* powf(a, 1.0F/n) for a >= 0 and n >= 1
FRoot(a, n) == IF IsFinite(a) THEN a \div n ELSE a

\* (float)n for an int n >= 1, truncated to a power of two
RECURSIVE Lg2(_)
Lg2(n) == IF n <= 1 THEN 0 ELSE 1 + Lg2(n \div 2)
FInt(n) == Oct * Lg2(n)

\* cabsf(re + i im) from the magnitudes of the two parts
FHypot(a, b) ==
  IF a = FZero THEN b
  ELSE IF b = FZero THEN a
  ELSE FSqrt(FAdd(FMul(a, a), FMul(b, b)))

Abs(x) == IF x < 0 THEN -x ELSE x
Min(x, y) == IF x < y THEN x ELSE y

\* ------------------------------------------------------------------ state
VARIABLES
  \* a call of one of the status packet functions
  arg,            \* its arguments
  pkt,            \* the bytes it has written from *buf on
  ret,            \* its return value
  val,            \* the value decoded from the bytes
  reads,          \* the offsets from buffer at which get_ssrc has read a byte
  config,         \* the values of the section as config2_getfloat returns them
  pc,             \* position of the thread: setup, filter, then per block
                  \* downconvert, pll, track, agc, output (and power, where the
                  \* final pass is split); at the end done or aborted
  status_lock,    \* holder of chan->status.lock: none, demod or status
  upstream,       \* the block source that downconvert reads: open or closed
  ndebug,         \* the build compiles assert() out (-DNDEBUG)
  \* configuration, normalised by loadconfig
  samprate, squelch_open, squelch_close, pll, agc,
  headroom, threshold, recovery_rate, hangtime, freq,
  \* channel state
  snr, lock_count, pll_lock, lock_timer, was_on,
  cphase,         \* chan->linear.cphase: oscillator phase at the end of the latest PLL block
  rotations,      \* chan->linear.rotations
  integrator,     \* chan->pll.pll.integrator
  foffset,        \* chan->sig.foffset
  bb_power, n0, gain, hangcount,
  energy,         \* chan->output.energy
  sum_gain_sq,    \* chan->output.sum_gain_sq
  \* locals of the current loop iteration
  N, gain_change, start_gain, output_power, mute, env,
  channels,       \* chan->output.channels as the final pass read it (line 189)
  corrected,      \* the read of line 231 found 1: output_power was doubled
  output_channels, \* chan->output.channels, the field itself
  buffer,         \* magnitudes <<re, im>> of the block's samples on entry to the final pass
  out,            \* the last output sample of the block: [left, right]
  signal, noise,  \* power sums of the PLL pass
  rc,             \* result of send_output
  branch,         \* AGC branch taken by the current iteration
  old_pll_lock,   \* history: pll_lock at the start of the latest PLL pass
  restart,        \* the block found the PLL enabled with was_on false
  noise_seen,     \* history: some PLL pass ended with noise != 0
  below_run,      \* samples of the consecutive PLL blocks with snr < squelch_close
  above_run,      \* samples of the consecutive PLL blocks with snr > squelch_open
  since_strong,   \* AGC decisions since the last strong-signal branch
  since_reduce    \* AGC decisions since the last strong or noise branch that lowered the gain

cfgvars == <<ndebug, samprate, squelch_open, squelch_close, pll, agc,
             headroom, threshold, recovery_rate, hangtime, freq>>
pllvars == <<snr, lock_count, pll_lock, lock_timer, was_on,
             old_pll_lock, below_run, above_run, restart, noise_seen>>
trackvars == <<cphase, rotations, integrator, foffset>>
agcvars == <<hangcount, gain_change, branch, since_strong, since_reduce>>
outvars == <<gain, start_gain, output_power, mute, channels, env, buffer, out,
             corrected, output_channels>>
sumvars == <<energy, sum_gain_sq>>
statvars == <<arg, pkt, ret, val, reads>>
vars == <<pc, status_lock, upstream, config, statvars, cfgvars, pllvars, trackvars, agcvars, outvars,
          sumvars, bb_power, n0, N, signal, noise, rc>>

\* ---------------------------------------------------------- configuration
\* dB2voltage(x), x in steps of one octave (6 dB)
dB2voltage(x) == FRange(x * Oct)

\* dB2power(x), x >= 0 in steps of 3 dB, as a linear power ratio
RECURSIVE dB2power(_)
dB2power(x) == IF x <= 0 THEN 1 ELSE 2 * dB2power(x - 1)

\* Mutant: a squelch-close above squelch-open is stored as it is
SquelchClose_Kept(open, close) == close

\* squelch_close > squelch_open is replaced by squelch_close = squelch_open
SquelchClose(open, close) == IF close > open THEN open ELSE close

\* Mutant: the sign of the configured headroom is kept
ConfigHeadroom_Signed(x) == dB2voltage(x)

\* headroom and threshold: always treated as <= 0 dB
ConfigHeadroom(x) == dB2voltage(-Abs(x))
ConfigThreshold(x) == dB2voltage(-Abs(x))
\* recovery rate: dB/s -> voltage ratio per block, never below 1
ConfigRecoveryRate(x) == dB2voltage(Abs(x))
\* hang time: seconds -> blocks, always >= 0 (x in units of one block time)
ConfigHangtime(x) == Abs(x)

\* The sections of a configuration file: squelch-open and squelch-close in
\* steps of 3 dB, headroom, threshold and gain in steps of 6 dB, recovery-rate
\* in steps of 6 dB per block time, hang-time in block times
Sections(SqSet, DbSet, RrSet, HangSet) ==
  [squelch_open : SqSet, squelch_close : SqSet, headroom : DbSet,
   threshold : DbSet, recovery_rate : RrSet, hang_time : HangSet, gain : {0}]

\* lock_time in hundredths of a second (DEFAULT_PLL_LOCKTIME = .05)
LockTimePercent == 5
\* int lock_limit = lock_time * samprate, truncated
lock_limit == (LockTimePercent * samprate) \div 100

\* --------------------------------------------------------- status packets
\* An unsigned integer of n bytes is the sequence of its bytes, the most
\* significant first; a byte is a number in 0 .. 255.
\* enum status_type: EOL ends the list
EOL == 0
COMMAND_TAG == 1
OUTPUT_SSRC == 18
\* sizeof(uint64_t), sizeof(uint32_t)
WordBytes == 8
FloatBytes == 4

ZeroWord(n) == [i \in 1 .. n |-> 0]
\* x <<= 8 * k
ShiftLeft(x, k) ==
  IF k >= Len(x) THEN ZeroWord(Len(x))
  ELSE SubSeq(x, k + 1, Len(x)) \o ZeroWord(k)
\* (result << 8) | b
ShiftIn(x, b) == Tail(x) \o <<b>>

\* while(len > 0 && (x & 0xff00000000000000LL) == 0){ x <<= 8; len--; }
RECURSIVE SuppressZeroes(_, _)
SuppressZeroes(x, len) ==
  IF len > 0 /\ x[1] = 0 THEN SuppressZeroes(ShiftLeft(x, 1), len - 1)
  ELSE [x |-> x, len |-> len]

\* Mutant: the value bytes are written least significant first
RECURSIVE EmitBytes_LsbFirst(_, _)
EmitBytes_LsbFirst(x, len) ==
  IF len <= 0 THEN <<>> ELSE EmitBytes_LsbFirst(ShiftLeft(x, 1), len - 1) \o <<x[1]>>

\* for(i = 0; i < len; i++){ *cp++ = x >> 56; x <<= 8; }
RECURSIVE EmitBytes(_, _)
EmitBytes(x, len) ==
  IF len <= 0 THEN <<>> ELSE <<x[1]>> \o EmitBytes(ShiftLeft(x, 1), len - 1)

\* encode_int64: the bytes written and the value returned
encode_int64(type, x) ==
  IF x = ZeroWord(WordBytes)
  THEN [bytes |-> <<type, 0>>, ret |-> 2]
  ELSE LET s == SuppressZeroes(x, WordBytes)
       IN [bytes |-> <<type, s.len>> \o EmitBytes(s.x, s.len), ret |-> 2 + s.len]

\* decode_int: while(len-- > 0) result = (result << 8) | *cp++;
RECURSIVE DecodeLoop(_, _, _)
DecodeLoop(cp, len, result) ==
  IF len <= 0 THEN result
  ELSE DecodeLoop(Tail(cp), len - 1, ShiftIn(result, Head(cp)))
decode_int(cp, len) == DecodeLoop(cp, len, ZeroWord(WordBytes))

\* encode_vector: 63 floats, int length = 252
VectorFloats == 63
VectorBytes == 252

\* for(j = 0; j < 4; j++){ *cp++ = (d.u >> 24); d.u <<= 24; }
RECURSIVE EmitFloat(_, _)
EmitFloat(d, j) ==
  IF j <= 0 THEN <<>> ELSE <<d[1]>> \o EmitFloat(ShiftLeft(d, 3), j - 1)

\* for(i = 0; i < 63; i++): the bytes of array[i .. 63]
RECURSIVE EmitVector(_, _)
EmitVector(array, i) ==
  IF i > VectorFloats THEN <<>>
  ELSE EmitFloat(array[i], FloatBytes) \o EmitVector(array, i + 1)

\* encode_vector: the bytes written and the value returned
encode_vector(type, array) ==
  [bytes |-> <<type, VectorBytes>> \o EmitVector(array, 1), ret |-> VectorBytes + 2]

\* return decode_int(cp, optlen) from a function returning int: the low 4
\* bytes of the 64-bit value
ToInt(x) == SubSeq(x, WordBytes - FloatBytes + 1, WordBytes)

\* get_ssrc from the offset cp - buffer on; buf[cp + 1] is *cp
RECURSIVE ScanOptions(_, _, _)
ScanOptions(buf, length, cp) ==
  IF ~(cp < length) THEN ZeroWord(FloatBytes)
  ELSE LET type == buf[cp + 1]
           optlen == buf[cp + 2]
           value == cp + 2
       IN IF type = EOL THEN ZeroWord(FloatBytes)
          ELSE IF value + optlen >= length THEN ZeroWord(FloatBytes)
          ELSE IF type = OUTPUT_SSRC
          THEN ToInt(decode_int(SubSeq(buf, value + 1, value + optlen), optlen))
          ELSE ScanOptions(buf, length, value + optlen)
get_ssrc(buf, length) == ScanOptions(buf, length, 0)

\* The offsets cp - buffer at which the same loop dereferences cp: the type,
\* the length byte of every option that is not an EOL, and the value bytes
\* that decode_int reads
RECURSIVE ScanReads(_, _, _)
ScanReads(buf, length, cp) ==
  IF ~(cp < length) THEN {}
  ELSE LET type == buf[cp + 1]
           optlen == buf[cp + 2]
           value == cp + 2
       IN IF type = EOL THEN {cp}
          ELSE IF value + optlen >= length THEN {cp, cp + 1}
          ELSE IF type = OUTPUT_SSRC
          THEN {cp, cp + 1} \cup (value .. value + optlen - 1)
          ELSE {cp, cp + 1} \cup ScanReads(buf, length, value + optlen)

\* --------------------------------------------------------------- PLL pass
\* snr = signal / noise - 1 clamped to >= 0 as the fraction num/den;
\* NaN (den = 0) when noise is exactly zero
NaNSnr == [num |-> 0, den |-> 0]
\* Mutant: the SNR is not clamped at 0
Snr_NoClamp(sig, nse) ==
  IF nse # 0 THEN [num |-> sig - nse, den |-> nse] ELSE NaNSnr

Snr(sig, nse) ==
  IF nse # 0
  THEN [num |-> IF sig - nse < 0 THEN 0 ELSE sig - nse, den |-> nse]
  ELSE NaNSnr

\* snr < t and snr > t for a threshold t; false for a NaN
SnrLt(s, t) == s.den # 0 /\ s.num < t * s.den
\* Mutant: a NaN compares above every threshold
SnrGt_NaNAbove(s, t) == s.den = 0 \/ s.num > t * s.den
SnrGt(s, t) == s.den # 0 /\ s.num > t * s.den

\* Mutant: the counter is not clamped at +lock_limit
LockDetector_NoClamp(s, lc, lk, n) ==
  IF SnrLt(s, squelch_close)
  THEN LET c == lc - n
       IN IF c <= -lock_limit
          THEN [lock_count |-> -lock_limit, pll_lock |-> FALSE]
          ELSE [lock_count |-> c, pll_lock |-> lk]
  ELSE IF SnrGt(s, squelch_open)
  THEN [lock_count |-> lc + n, pll_lock |-> (lc + n >= lock_limit) \/ lk]
  ELSE [lock_count |-> lc, pll_lock |-> lk]

\* Mutant: no hysteresis, the lock boolean follows the sign of the counter
LockDetector_NoHysteresis(s, lc, lk, n) ==
  LET c == IF SnrLt(s, squelch_close) THEN lc - n
           ELSE IF SnrGt(s, squelch_open) THEN lc + n ELSE lc
      cc == IF c <= -lock_limit THEN -lock_limit
            ELSE IF c >= lock_limit THEN lock_limit ELSE c
  IN [lock_count |-> cc, pll_lock |-> IF cc > 0 THEN TRUE ELSE IF cc < 0 THEN FALSE ELSE lk]

\* Mutant: snr <= squelch_close counts down, so equality is not in the dead zone
LockDetector_CloseInclusive(s, lc, lk, n) ==
  IF s.den # 0 /\ s.num <= squelch_close * s.den
  THEN LET c == lc - n
       IN IF c <= -lock_limit
          THEN [lock_count |-> -lock_limit, pll_lock |-> FALSE]
          ELSE [lock_count |-> c, pll_lock |-> lk]
  ELSE IF SnrGt(s, squelch_open)
  THEN LET c == lc + n
       IN IF c >= lock_limit
          THEN [lock_count |-> lock_limit, pll_lock |-> TRUE]
          ELSE [lock_count |-> c, pll_lock |-> lk]
  ELSE [lock_count |-> lc, pll_lock |-> lk]

\* Loop lock detector with hysteresis: the new lock_count and pll_lock
LockDetector(s, lc, lk, n) ==
  IF SnrLt(s, squelch_close)
  THEN LET c == lc - n
       IN IF c <= -lock_limit
          THEN [lock_count |-> -lock_limit, pll_lock |-> FALSE]
          ELSE [lock_count |-> c, pll_lock |-> lk]
  ELSE IF SnrGt(s, squelch_open)
  THEN LET c == lc + n
       IN IF c >= lock_limit
          THEN [lock_count |-> lock_limit, pll_lock |-> TRUE]
          ELSE [lock_count |-> c, pll_lock |-> lk]
  ELSE [lock_count |-> lc, pll_lock |-> lk]

\* ------------------------------------------------------- phase unwrapping
\* Mutant: a PLL that comes back on keeps its loop integrator
PllReset_KeepsIntegrator(wo, rot, integ) ==
  IF ~wo THEN [rotations |-> 0, integrator |-> integ]
  ELSE [rotations |-> rot, integrator |-> integ]

\* if(!chan->pll.was_on): the rotation counter and the loop integrator
\* restart from 0
PllReset(wo, rot, integ) ==
  IF ~wo THEN [rotations |-> 0, integrator |-> 0]
  ELSE [rotations |-> rot, integrator |-> integ]

\* Mutant: a difference of exactly +-pi counts as a wrap
RotationStep_Inclusive(diff, rot) ==
  IF diff >= HalfTurn THEN rot - 1
  ELSE IF diff <= -HalfTurn THEN rot + 1
  ELSE rot

\* Mutant: the two directions are exchanged
RotationStep_Swapped(diff, rot) ==
  IF diff > HalfTurn THEN rot + 1
  ELSE IF diff < -HalfTurn THEN rot - 1
  ELSE rot

\* The rotation counter after a block whose phase differs by diff from the
\* phase stored by the block before
RotationStep(diff, rot) ==
  IF diff > HalfTurn THEN rot - 1
  ELSE IF diff < -HalfTurn THEN rot + 1
  ELSE rot

\* -------------------------------------------------------------------- AGC
\* bw = fabsf(min_IF - max_IF), four times the unit bandwidth
FilterBw == 2 * Oct
NoiseAmpl == FSqrt(FMul(FilterBw, n0))      \* bn
SignalAmpl == FSqrt(bb_power)               \* ampl

StrongSignal(g) == FGt(FMul(SignalAmpl, g), headroom)
NoiseAbove(g) == FGt(FMul(NoiseAmpl, g), FMul(threshold, headroom))

\* Mutant: the ramp is computed whatever the target is
Ramp_NoGuard(newgain, g, n) == FRoot(FDiv(newgain, g), n)

\* gain_change of a branch that ramps to newgain; 1 when newgain is not > 0
Ramp(newgain, g, n) ==
  IF FGt(newgain, FZero) THEN FRoot(FDiv(newgain, g), n) ELSE FOne

\* Mutant: the noise test comes before the strong-signal test
Agc_NoiseFirst(g, hc, n) ==
  IF NoiseAbove(g)
  THEN [gain_change |-> Ramp(FDiv(FMul(threshold, headroom), NoiseAmpl), g, n),
        hangcount |-> hc, branch |-> "noise"]
  ELSE IF StrongSignal(g)
  THEN [gain_change |-> Ramp(FDiv(headroom, SignalAmpl), g, n),
        hangcount |-> hangtime, branch |-> "strong"]
  ELSE IF hc > 0
  THEN [gain_change |-> FOne, hangcount |-> hc - 1, branch |-> "hang"]
  ELSE [gain_change |-> FRoot(recovery_rate, n), hangcount |-> hc,
        branch |-> "recover"]

\* Mutant: the noise branch restarts the hang counter as the strong branch does
Agc_NoiseRestartsHang(g, hc, n) ==
  IF StrongSignal(g)
  THEN [gain_change |-> Ramp(FDiv(headroom, SignalAmpl), g, n),
        hangcount |-> hangtime, branch |-> "strong"]
  ELSE IF NoiseAbove(g)
  THEN [gain_change |-> Ramp(FDiv(FMul(threshold, headroom), NoiseAmpl), g, n),
        hangcount |-> hangtime, branch |-> "noise"]
  ELSE IF hc > 0
  THEN [gain_change |-> FOne, hangcount |-> hc - 1, branch |-> "hang"]
  ELSE [gain_change |-> FRoot(recovery_rate, n), hangcount |-> hc,
        branch |-> "recover"]

\* Mutant: the strong-signal branch does not restart the hang counter
Agc_StrongKeepsHang(g, hc, n) ==
  IF StrongSignal(g)
  THEN [gain_change |-> Ramp(FDiv(headroom, SignalAmpl), g, n),
        hangcount |-> hc, branch |-> "strong"]
  ELSE IF NoiseAbove(g)
  THEN [gain_change |-> Ramp(FDiv(FMul(threshold, headroom), NoiseAmpl), g, n),
        hangcount |-> hc, branch |-> "noise"]
  ELSE IF hc > 0
  THEN [gain_change |-> FOne, hangcount |-> hc - 1, branch |-> "hang"]
  ELSE [gain_change |-> FRoot(recovery_rate, n), hangcount |-> hc,
        branch |-> "recover"]

\* The AGC decision for gain g, hang counter hc and block size n:
\* the per-sample gain_change, the new hang counter and the branch taken.
Agc(g, hc, n) ==
  IF StrongSignal(g)
  THEN [gain_change |-> Ramp(FDiv(headroom, SignalAmpl), g, n),
        hangcount |-> hangtime, branch |-> "strong"]
  ELSE IF NoiseAbove(g)
  THEN [gain_change |-> Ramp(FDiv(FMul(threshold, headroom), NoiseAmpl), g, n),
        hangcount |-> hc, branch |-> "noise"]
  ELSE IF hc > 0
  THEN [gain_change |-> FOne, hangcount |-> hc - 1, branch |-> "hang"]
  ELSE [gain_change |-> FRoot(recovery_rate, n), hangcount |-> hc,
        branch |-> "recover"]

\* Mutant: the AGC decision is taken whether or not the AGC is enabled
AgcDecision_IgnoresFlag(g, hc, n) == Agc(g, hc, n)

\* float gain_change = 1; if(chan->linear.agc){...}: with the AGC off the
\* whole decision is skipped
AgcDecision(g, hc, n) ==
  IF agc THEN Agc(g, hc, n)
  ELSE [gain_change |-> FOne, hangcount |-> hc, branch |-> "off"]

\* assert(gain_change != 0) after the strong, noise and recovery computations
AssertFails(r) == r.branch \in {"strong", "noise", "recover"} /\ FEq(r.gain_change, FZero)

\* ------------------------------------------------------------- final pass
\* Mutant: in stereo envelope mode the magnitude is taken after the left
\* channel has been scaled
OutSample_ScaledFirst(ch, e, re, im, g) ==
  IF ch = 1
  THEN [left |-> IF e THEN FMul(FHypot(re, im), g) ELSE FMul(re, g), right |-> FZero]
  ELSE [left |-> FMul(re, g),
        right |-> FMul(IF e THEN FMul(FHypot(FMul(re, g), im), FTwo) ELSE im, g)]

\* One output sample for input parts of magnitude re, im at gain g: mono has
\* only one value (left); stereo envelope first replaces the imaginary part
\* by 2 cabsf(buffer[n]) and then scales both parts
OutSample(ch, e, re, im, g) ==
  IF ch = 1
  THEN [left |-> IF e THEN FMul(FHypot(re, im), g) ELSE FMul(re, g), right |-> FZero]
  ELSE [left |-> FMul(re, g),
        right |-> FMul(IF e THEN FMul(FHypot(re, im), FTwo) ELSE im, g)]

\* Squared magnitude of one output sample for input parts of magnitude
\* re, im at gain g, in the mode chosen by the channel count and env.
SamplePower(ch, e, re, im, g) ==
  LET o == OutSample(ch, e, re, im, g)
  IN IF ch = 1 THEN FMul(o.left, o.left)
     ELSE FAdd(FMul(o.left, o.left), FMul(o.right, o.right))

\* chan->output.gain *= gain_change, once per sample in each of the four loops
NextGain(ch, e, g, gc) ==
  IF ch = 1
  THEN (IF e THEN FMul(g, gc) ELSE FMul(g, gc))
  ELSE (IF e THEN FMul(g, gc) ELSE FMul(g, gc))

\* The loop over the k remaining samples: the final gain and the power sum
RECURSIVE FinalLoop(_, _, _, _, _, _, _, _)
FinalLoop(k, ch, e, re, im, g, gc, acc) ==
  IF k = 0 THEN [gain |-> g, power |-> acc]
  ELSE FinalLoop(k - 1, ch, e, re, im, NextGain(ch, e, g, gc), gc,
                 FAdd(acc, SamplePower(ch, e, re, im, g)))

\* Mutant: the mono power is not doubled
PerSample_NoMonoCorrection(power, n, ch) == FDiv(power, FInt(n))

\* output_power /= N; doubled for mono
PerSample(power, n, ch) ==
  LET p == FDiv(power, FInt(n))
  IN IF ch = 1 THEN FMul(p, FTwo) ELSE p

\* Mutant: an unlocked loop mutes whether or not the PLL is enabled
Mute_IgnoresPllFlag(power) == FEq(power, FZero) \/ ~pll_lock \/ (freq = 0)

\* Mutant: a PLL that has just come back on mutes its first block
Mute_RestartMutes(power) ==
  FEq(power, FZero) \/ (pll /\ (~pll_lock \/ restart)) \/ (freq = 0)

\* bool mute, as passed to send_output
Mute(power) == FEq(power, FZero) \/ (pll /\ ~pll_lock) \/ (freq = 0)

\* Mutant: a failed send_output is tried again
AfterSend_Retry(r) == IF r = -1 THEN "output" ELSE "downconvert"

\* if(send_output(...) == -1) break; the position after send_output returned r
AfterSend(r) == IF r = -1 THEN "done" ELSE "downconvert"

\* ----------------------------------------------------------------- inputs
\* (signal, noise): the in-phase and quadrature power sums of a PLL pass
SnrInputs == ((0 .. MaxSig) \X {1}) \cup {<<0, 0>>, <<MaxSig, 0>>, <<MaxSig + 1, 2>>}
\* chan->sig.bb_power and chan->sig.n0 as downconvert leaves them
BbInputs == {FZero, 2 * Oct}
N0Inputs == {FZero, FOne}
\* the same for a channel whose AGC is off and never reads them
Quiet == {FZero}
\* What the PLL leaves after the samples of a block: <<the angle of its
\* phasor, its integrator, its frequency>>
PllRuns == {<<ph, x, x>> : ph \in -HalfTurn .. HalfTurn, x \in {0, 1}}
\* (signal, noise) of a block well below and of one well above both thresholds
SnrEnds == {<<0, 1>>, <<MaxSig, 1>>}
\* the same for a PLL at rest
PllRest == {<<0, 0, 0>>}
\* magnitudes (re, im) of the block's samples on entry to the final pass
SampleInputs == {<<FZero, FZero>>, <<FOne, FZero>>, <<FOne, FOne>>}
\* <<chan->output.channels, chan->linear.env>>: the four output modes
Modes == {1, 2} \X BOOLEAN
\* mono, synchronous detection only
MonoSync == {<<1, FALSE>>}
\* samples that are all zero, or all of unit in-phase amplitude
PlainSamples == {<<FZero, FZero>>, <<FOne, FZero>>}
HangCap == MaxHang + 1

\* ------------------------------------------------------------------- Init
\* The channel as loadconfig leaves it, from raw configuration values:
\* sq, db in dB steps, hang in block times.
InitRest(PllSet, AgcSet, RateSet, FreqSet, BuildSet) ==
  /\ status_lock = "none"
  /\ upstream = "open"
  /\ ndebug \in BuildSet
  /\ samprate \in RateSet
  /\ pll \in PllSet
  /\ agc \in AgcSet
  /\ freq \in FreqSet
  /\ snr = Snr(0, 1)
  /\ lock_count = 0
  /\ pll_lock = FALSE
  /\ lock_timer = 0
  /\ was_on = FALSE
  /\ cphase = 0
  /\ rotations = 0
  /\ integrator = 0
  /\ foffset = 0
  /\ signal = 0
  /\ noise = 0
  /\ rc = 0
  /\ bb_power = FZero
  /\ n0 = FZero
  /\ hangcount = 0
  /\ N = 1
  /\ gain_change = FOne
  /\ start_gain = gain
  /\ output_power = FZero
  /\ mute = TRUE
  /\ channels = 1
  /\ corrected = FALSE
  /\ output_channels = 1
  /\ env = FALSE
  /\ buffer = <<FZero, FZero>>
  /\ out = [left |-> FZero, right |-> FZero]
  /\ energy = FZero
  /\ sum_gain_sq = FZero
  /\ branch = "none"
  /\ old_pll_lock = FALSE
  /\ restart = FALSE
  /\ noise_seen = FALSE
  /\ below_run = 0
  /\ above_run = 0
  /\ since_strong = HangCap
  /\ since_reduce = HangCap

\* no status packet function has been called
NoCall == arg = <<>> /\ pkt = <<>> /\ ret = 0 /\ val = <<>> /\ reads = {}

\* the fields as loadconfig stores them
Stored ==
  /\ squelch_open = dB2power(config.squelch_open)
  /\ squelch_close = dB2power(SquelchClose(config.squelch_open, config.squelch_close))
  /\ headroom = ConfigHeadroom(config.headroom)
  /\ threshold = ConfigThreshold(config.threshold)
  /\ recovery_rate = ConfigRecoveryRate(config.recovery_rate)
  /\ hangtime = ConfigHangtime(config.hang_time)
  /\ gain = dB2voltage(config.gain)

InitWith(PllSet, AgcSet, RateSet, SqSet, DbSet, HangSet, FreqSet, BuildSet) ==
  /\ pc = "setup"
  /\ config \in Sections(SqSet, DbSet, {1}, HangSet)
  /\ Stored
  /\ InitRest(PllSet, AgcSet, RateSet, FreqSet, BuildSet)
  /\ NoCall

\* A channel whose section is read but not yet converted: the fields that
\* loadconfig fills are still zero
InitUnconfigured(SectionSet, PllSet, RateSet) ==
  /\ pc = "config"
  /\ config \in SectionSet
  /\ squelch_open = 0
  /\ squelch_close = 0
  /\ headroom = FZero
  /\ threshold = FZero
  /\ recovery_rate = FZero
  /\ hangtime = 0
  /\ gain = FZero
  /\ InitRest(PllSet, {TRUE}, RateSet, {1}, {FALSE})
  /\ NoCall

\* ---------------------------------------------------------------- actions
\* pthread_mutex_lock(&chan->status.lock) before the filter is rebuilt
SetupLock ==
  /\ pc = "setup"
  /\ status_lock = "none"
  /\ status_lock' = "demod"
  /\ pc' = "filter"
  /\ UNCHANGED <<upstream, config, statvars, cfgvars, sumvars, pllvars, trackvars, agcvars, outvars,
                 bb_power, n0, N, signal, noise, rc>>

\* the filter output is created and the lock is released; the PLL is set up
SetupUnlock ==
  /\ pc = "filter"
  /\ status_lock' = "none"
  /\ pc' = "downconvert"
  /\ UNCHANGED <<upstream, config, statvars, cfgvars, sumvars, pllvars, trackvars, agcvars, outvars,
                 bb_power, n0, N, signal, noise, rc>>

\* while(downconvert(chan) == 0): the next block, or the end of the loop
Downconvert(BbSet, N0Set) ==
  /\ pc = "downconvert"
  /\ \/ /\ upstream = "open"
        /\ N' \in 1 .. MaxN
        /\ bb_power' \in BbSet
        /\ n0' \in N0Set
        /\ pc' = "pll"
        \* the locals of the iteration that ended are out of scope
        /\ gain_change' = FOne
        /\ branch' = "none"
        /\ start_gain' = gain
        /\ output_power' = FZero
        /\ mute' = TRUE
        /\ channels' = 1
        /\ corrected' = FALSE
        /\ env' = FALSE
        /\ buffer' = <<FZero, FZero>>
        /\ out' = [left |-> FZero, right |-> FZero]
        /\ signal' = 0
        /\ noise' = 0
        /\ rc' = 0
        /\ UNCHANGED <<gain, output_channels, hangcount, since_strong, since_reduce>>
     \/ /\ upstream = "closed"
        /\ pc' = "done"
        /\ UNCHANGED <<N, bb_power, n0, agcvars, outvars, signal, noise, rc>>
  /\ UNCHANGED <<status_lock, upstream, config, statvars, cfgvars, sumvars, pllvars, trackvars>>

RunCap == lock_limit + 1

\* if(chan->linear.pll): a PLL that was off restarts; else was_on is cleared
\* and the whole PLL pass is skipped
PllEnter ==
  /\ pc = "pll"
  /\ old_pll_lock' = pll_lock
  /\ restart' = (pll /\ ~was_on)
  /\ IF pll
     THEN LET r == PllReset(was_on, rotations, integrator)
          IN /\ rotations' = r.rotations
             /\ integrator' = r.integrator
             /\ was_on' = TRUE
             /\ pc' = "track"
             /\ UNCHANGED <<below_run, above_run>>
     ELSE /\ was_on' = FALSE
          /\ pc' = "agc"
          /\ below_run' = 0
          /\ above_run' = 0
          /\ UNCHANGED <<rotations, integrator>>
  /\ UNCHANGED <<status_lock, upstream, config, statvars, cfgvars, sumvars, snr, lock_count, pll_lock, lock_timer,
                 noise_seen, cphase, foffset, agcvars, outvars, bb_power, n0, N,
                 signal, noise, rc>>

\* First pass: the PLL over the samples, the SNR estimate, the lock
\* detector and the phase unwrapping
PllStep(SnrSet, RunSet) ==
  /\ pc = "track"
  /\ pc' = "agc"
  /\ \E in \in SnrSet, run \in RunSet :
       LET s == Snr(in[1], in[2])
           d == LockDetector(s, lock_count, pll_lock, N)
           phase == run[1]
       IN /\ signal' = in[1]
          /\ noise' = in[2]
          /\ snr' = s
          /\ lock_count' = d.lock_count
          /\ pll_lock' = d.pll_lock
          /\ lock_timer' = d.lock_count
          /\ below_run' = IF SnrLt(s, squelch_close)
                          THEN Min(below_run + N, RunCap) ELSE 0
          /\ above_run' = IF SnrGt(s, squelch_open)
                          THEN Min(above_run + N, RunCap) ELSE 0
          /\ noise_seen' = (noise_seen \/ in[2] # 0)
          /\ cphase' = phase
          /\ rotations' = RotationStep(phase - cphase, rotations)
          /\ Abs(rotations') <= MaxRot
          /\ integrator' = run[2]
          /\ foffset' = run[3]
  /\ UNCHANGED <<status_lock, upstream, config, statvars, cfgvars, sumvars, was_on, old_pll_lock, restart, agcvars, outvars,
                 bb_power, n0, N, rc>>

\* The AGC decision; a failing assert ends the process unless compiled out
AgcStep ==
  /\ pc = "agc"
  /\ LET r == AgcDecision(gain, hangcount, N)
     IN /\ gain_change' = r.gain_change
        /\ branch' = r.branch
        /\ IF AssertFails(r) /\ ~ndebug
           THEN pc' = "aborted" /\ hangcount' = hangcount
           ELSE pc' = "output" /\ hangcount' = r.hangcount
  /\ UNCHANGED <<status_lock, upstream, config, statvars, cfgvars, sumvars, pllvars, trackvars, outvars,
                 bb_power, n0, N, signal, noise, rc, since_strong, since_reduce>>

\* Final pass over the block, the mute decision and send_output
OutputStep(ModeSet, SampleSet) ==
  /\ pc = "output"
  /\ \E mode \in ModeSet, in \in SampleSet, r \in {0, -1} :
       LET ch == mode[1]
           e == mode[2]
           f == FinalLoop(N, ch, e, in[1], in[2], gain, gain_change, FZero)
           p == PerSample(f.power, N, ch)
       IN \* the mode of the block, as the control path left it before the block
          /\ output_channels' = ch
          /\ channels' = ch
          /\ corrected' = (ch = 1)
          /\ env' = e
          /\ buffer' = in
          /\ out' = OutSample(ch, e, in[1], in[2],
                             FinalLoop(N - 1, ch, e, in[1], in[2],
                                       gain, gain_change, FZero).gain)
          /\ start_gain' = gain
          /\ gain' = f.gain
          /\ output_power' = p
          /\ mute' = Mute(p)
          /\ since_strong' = IF branch = "strong" THEN 0
                             ELSE Min(since_strong + 1, HangCap)
          /\ since_reduce' = IF branch \in {"strong", "noise"} /\ FLt(f.gain, gain)
                             THEN 0 ELSE Min(since_reduce + 1, HangCap)
          /\ energy' = Accumulate(energy, p)
          \* not reached after the break
          /\ sum_gain_sq' = IF r = -1 THEN sum_gain_sq
                            ELSE Accumulate(sum_gain_sq, FMul(gain, f.gain))
          /\ rc' = r
          /\ pc' = AfterSend(r)
  /\ UNCHANGED <<status_lock, upstream, config, statvars, cfgvars, pllvars, trackvars, bb_power, n0, N,
                 signal, noise, hangcount, gain_change, branch>>

\* The final pass alone, for a channel whose output mode the control path
\* may change at any time: chan->output.channels is read at line 189, and
\* the raw power sum is left in output_power
FormatStep(EnvSet, SampleSet) ==
  /\ pc = "output"
  /\ pc' = "power"
  /\ \E e \in EnvSet, in \in SampleSet :
       LET ch == output_channels
           f == FinalLoop(N, ch, e, in[1], in[2], gain, gain_change, FZero)
       IN /\ channels' = ch
          /\ env' = e
          /\ buffer' = in
          /\ out' = OutSample(ch, e, in[1], in[2],
                             FinalLoop(N - 1, ch, e, in[1], in[2],
                                       gain, gain_change, FZero).gain)
          /\ start_gain' = gain
          /\ gain' = f.gain
          /\ output_power' = f.power
          /\ since_strong' = IF branch = "strong" THEN 0
                             ELSE Min(since_strong + 1, HangCap)
          /\ since_reduce' = IF branch \in {"strong", "noise"} /\ FLt(f.gain, gain)
                             THEN 0 ELSE Min(since_reduce + 1, HangCap)
  /\ UNCHANGED <<status_lock, upstream, config, statvars, cfgvars, sumvars, pllvars, trackvars,
                 bb_power, n0, N, signal, noise, rc, hangcount, gain_change, branch,
                 mute, corrected, output_channels>>

\* output_power /= N, the second read of chan->output.channels at line 231,
\* the mute decision and send_output.  The field is an ordinary int read
\* without synchronisation: the read finds the value the field has now, or,
\* in a build that kept the value read at line 189 in a register, that value
PowerStep ==
  /\ pc = "power"
  /\ \E c \in {output_channels, channels}, r \in {0, -1} :
       LET p == PerSample(output_power, N, c)
       IN /\ corrected' = (c = 1)
          /\ output_power' = p
          /\ mute' = Mute(p)
          /\ energy' = Accumulate(energy, p)
          /\ sum_gain_sq' = IF r = -1 THEN sum_gain_sq
                            ELSE Accumulate(sum_gain_sq, FMul(start_gain, gain))
          /\ rc' = r
          /\ pc' = AfterSend(r)
  /\ UNCHANGED <<status_lock, upstream, config, statvars, cfgvars, pllvars, trackvars, agcvars,
                 bb_power, n0, N, signal, noise,
                 gain, start_gain, channels, env, buffer, out, output_channels>>

\* The control path changes the output channel count of the running channel
SetChannels ==
  /\ pc \notin {"setup", "filter", "done", "aborted"}
  /\ output_channels' = 3 - output_channels
  /\ UNCHANGED <<pc, status_lock, upstream, config, statvars, cfgvars, sumvars, pllvars, trackvars,
                 agcvars, gain, start_gain, output_power, mute, channels, env,
                 buffer, out, corrected, bb_power, n0, N, signal, noise, rc>>

\* The lifecycle manager closes the block source of the channel
CloseUpstream ==
  /\ upstream = "open"
  /\ pc \notin {"done", "aborted"}
  /\ upstream' = "closed"
  /\ UNCHANGED <<pc, status_lock, config, statvars, cfgvars, sumvars, pllvars, trackvars, agcvars, outvars,
                 bb_power, n0, N, signal, noise, rc>>

\* The control path switches the PLL of the running channel on or off
SetPll ==
  /\ pc \notin {"setup", "filter", "done", "aborted"}
  /\ pll' = ~pll
  /\ UNCHANGED <<pc, status_lock, upstream, config, statvars, ndebug, samprate, squelch_open,
                 squelch_close, agc, headroom, threshold, recovery_rate,
                 hangtime, freq, sumvars, pllvars, trackvars, agcvars, outvars,
                 bb_power, n0, N, signal, noise, rc>>

\* The status thread takes chan->status.lock to read the telemetry fields
StatusHold ==
  /\ status_lock = "none"
  /\ pc \notin {"done", "aborted"}
  /\ status_lock' = "status"
  /\ UNCHANGED <<pc, upstream, config, statvars, cfgvars, sumvars, pllvars, trackvars, agcvars, outvars,
                 bb_power, n0, N, signal, noise, rc>>

\* and releases it
StatusRelease ==
  /\ status_lock = "status"
  /\ status_lock' = "none"
  /\ UNCHANGED <<pc, upstream, config, statvars, cfgvars, sumvars, pllvars, trackvars, agcvars, outvars,
                 bb_power, n0, N, signal, noise, rc>>

\* The demodulator thread with the block inputs drawn from the given sets
\* loadconfig converts the values of the section into the fields of the channel
LoadConfig ==
  /\ pc = "config"
  /\ pc' = "setup"
  /\ squelch_open' = dB2power(config.squelch_open)
  /\ squelch_close' = dB2power(SquelchClose(config.squelch_open, config.squelch_close))
  /\ headroom' = ConfigHeadroom(config.headroom)
  /\ threshold' = ConfigThreshold(config.threshold)
  /\ recovery_rate' = ConfigRecoveryRate(config.recovery_rate)
  /\ hangtime' = ConfigHangtime(config.hang_time)
  /\ gain' = dB2voltage(config.gain)
  /\ start_gain' = gain'
  /\ UNCHANGED <<status_lock, upstream, config, statvars, ndebug, samprate, pll, agc, freq,
                 sumvars, pllvars, trackvars, agcvars, output_power, mute,
                 channels, env, buffer, out, corrected, output_channels,
                 bb_power, n0, N, signal, noise, rc>>

\* A call of encode_int64 on an empty buffer
EncodeInt64 ==
  /\ pc = "encode"
  /\ pc' = "decode"
  /\ LET e == encode_int64(arg.type, arg.x)
     IN pkt' = e.bytes /\ ret' = e.ret
  /\ UNCHANGED <<arg, val, reads, status_lock, upstream, config, cfgvars, sumvars, pllvars,
                 trackvars, agcvars, outvars, bb_power, n0, N, signal, noise, rc>>

\* decode_int on the value bytes of the option just written, with the length
\* taken from its length byte
DecodeInt ==
  /\ pc = "decode"
  /\ pc' = "returned"
  /\ val' = decode_int(SubSeq(pkt, 3, Len(pkt)), pkt[2])
  /\ UNCHANGED <<arg, pkt, ret, reads, status_lock, upstream, config, cfgvars, sumvars,
                 pllvars, trackvars, agcvars, outvars, bb_power, n0, N, signal,
                 noise, rc>>

\* A call of encode_vector on an empty buffer
EncodeVector ==
  /\ pc = "vector"
  /\ pc' = "returned"
  /\ LET e == encode_vector(arg.type, arg.array)
     IN pkt' = e.bytes /\ ret' = e.ret
  /\ UNCHANGED <<arg, val, reads, status_lock, upstream, config, cfgvars, sumvars, pllvars,
                 trackvars, agcvars, outvars, bb_power, n0, N, signal, noise, rc>>

\* A call of get_ssrc
GetSsrc ==
  /\ pc = "scan"
  /\ pc' = "returned"
  /\ ret' = get_ssrc(arg.buffer, arg.length)
  /\ reads' = ScanReads(arg.buffer, arg.length, 0)
  /\ UNCHANGED <<arg, pkt, val, status_lock, upstream, config, cfgvars, sumvars,
                 pllvars, trackvars, agcvars, outvars, bb_power, n0, N, signal,
                 noise, rc>>

Demod(BbSet, N0Set, SnrSet, RunSet, ModeSet, SampleSet) ==
  \/ SetupLock
  \/ SetupUnlock
  \/ Downconvert(BbSet, N0Set)
  \/ PllEnter
  \/ PllStep(SnrSet, RunSet)
  \/ AgcStep
  \/ OutputStep(ModeSet, SampleSet)

Next == Demod(Quiet, Quiet, SnrInputs, PllRest, MonoSync, PlainSamples) \/ CloseUpstream
\* the same thread on a channel whose PLL stays off: no PLL pass is entered
DemodPllOff ==
  \/ SetupLock
  \/ SetupUnlock
  \/ Downconvert(BbInputs, N0Inputs)
  \/ PllEnter
  \/ AgcStep
  \/ OutputStep(Modes, SampleInputs)

NextAgc == DemodPllOff \/ CloseUpstream
\* the same with mono synchronous output only
DemodMono ==
  \/ SetupLock
  \/ SetupUnlock
  \/ Downconvert(BbInputs, N0Inputs)
  \/ PllEnter
  \/ AgcStep
  \/ OutputStep(MonoSync, PlainSamples)
NextMono == DemodMono \/ CloseUpstream

\* Lock detector: PLL on or off, AGC off
Init == InitWith(BOOLEAN, {FALSE}, {10, 20, 40, 60}, {0, 1}, {0}, {0}, {0, 1}, {FALSE})
Spec == Init /\ [][Next]_vars

\* AGC: PLL off, mono synchronous output
InitAgc == InitWith({FALSE}, BOOLEAN, {40}, {0}, {-1, 0}, 0 .. MaxHang, {1}, BOOLEAN)
SpecAgc == InitAgc /\ [][NextMono]_vars

\* The four output modes: PLL off, AGC on
InitModes == InitWith({FALSE}, {TRUE}, {40}, {0}, {0}, {0}, {1}, BOOLEAN)
SpecModes == InitModes /\ [][NextAgc]_vars

\* PLL switched on and off while the loop runs, with the status thread
NextPll ==
  \/ Demod(Quiet, Quiet, SnrEnds, PllRuns, MonoSync, PlainSamples)
  \/ CloseUpstream
  \/ SetPll
  \/ StatusHold
  \/ StatusRelease
InitPll == InitWith(BOOLEAN, {FALSE}, {20}, {0}, {0}, {0}, {1}, {FALSE})
SpecPll == InitPll /\ [][NextPll]_vars

\* AGC with a headroom or a threshold configured so far below 0 dB that its
\* voltage ratio underflows to 0
DbFloor == -(2 * ERange + 1)
InitGuard == InitWith({FALSE}, {TRUE}, {40}, {0}, {DbFloor, 0}, {0, 1}, {1}, BOOLEAN)
SpecGuard == InitGuard /\ [][NextMono]_vars

\* Progress of the loop, AGC on: the demodulator thread is scheduled again
\* and again, and downconvert and send_output return; nothing obliges the
\* lifecycle manager ever to close the block source
InitLive == InitWith({FALSE}, {TRUE}, {40}, {0}, {0}, {0}, {1}, BOOLEAN)
DemodLive ==
  \/ SetupLock
  \/ SetupUnlock
  \/ Downconvert(BbInputs, Quiet)
  \/ PllEnter
  \/ AgcStep
  \/ OutputStep(MonoSync, PlainSamples)
NextLive == DemodLive \/ CloseUpstream
SpecLive == InitLive /\ [][NextLive]_vars /\ WF_vars(DemodLive)

\* loadconfig on sections with headroom, threshold and recovery-rate of
\* either sign, up to values whose voltage ratio leaves the float range
DbInputs == {DbFloor, -1, 0, 1, -DbFloor}
InitConfig ==
  InitUnconfigured(Sections({0}, DbInputs, DbInputs, -MaxHang .. MaxHang),
                   {FALSE}, {40})
SpecConfig == InitConfig /\ [][LoadConfig]_vars

\* loadconfig on sections with every order of squelch-open and squelch-close,
\* then the loop with the PLL on
SqInputs == 0 .. 2
InitSquelch == InitUnconfigured(Sections(SqInputs, {0}, {1}, {0}), {TRUE}, {20})
NextSquelch ==
  \/ LoadConfig
  \/ Demod(Quiet, Quiet, SnrInputs, PllRest, MonoSync, PlainSamples)
  \/ CloseUpstream
SpecSquelch == InitSquelch /\ [][NextSquelch]_vars

\* A status packet function called on arguments from ArgSet; the channel
\* plays no part
InitCall(start, ArgSet) ==
  /\ pc = start
  /\ arg \in ArgSet
  /\ pkt = <<>>
  /\ ret = 0
  /\ val = <<>>
  /\ reads = {}
  /\ config \in Sections({0}, {0}, {1}, {0})
  /\ Stored
  /\ InitRest({FALSE}, {FALSE}, {20}, {1}, {FALSE})

\* encode_int64 and decode_int on the 64-bit values whose bytes are 0, 1 or
\* 255 each
ByteInputs == {0, 1, 255}
InitEncode ==
  InitCall("encode", [type : {COMMAND_TAG, OUTPUT_SSRC},
                      x : [1 .. WordBytes -> ByteInputs]])
NextEncode == EncodeInt64 \/ DecodeInt
SpecEncode == InitEncode /\ [][NextEncode]_vars

\* encode_vector on arrays that alternate between two 32-bit patterns whose
\* bytes are 0, 1 or 255 each
FloatInputs == [1 .. FloatBytes -> ByteInputs]
InitVector ==
  InitCall("vector",
           {[type |-> COMMAND_TAG,
             array |-> [i \in 1 .. VectorFloats |-> IF i % 2 = 1 THEN p ELSE q]] :
              p \in FloatInputs, q \in FloatInputs})
SpecVector == InitVector /\ [][EncodeVector]_vars

\* get_ssrc on every memory of MaxBuf bytes that are EOL, 1, 2 or OUTPUT_SSRC
\* each, of which the first length bytes are the packet
MaxBuf == 6
PacketBytes == {EOL, 1, 2, OUTPUT_SSRC}
InitScan ==
  InitCall("scan", [buffer : [1 .. MaxBuf -> PacketBytes], length : 0 .. MaxBuf - 1])
SpecScan == InitScan /\ [][GetSsrc]_vars

\* The output mode changed by the control path while the thread runs; the
\* PLL and the AGC are off
InitChannels == InitWith({FALSE}, {FALSE}, {40}, {0}, {0}, {0}, {0, 1}, {FALSE})
DemodChannels ==
  \/ SetupLock
  \/ SetupUnlock
  \/ Downconvert(Quiet, Quiet)
  \/ PllEnter
  \/ AgcStep
  \/ FormatStep(BOOLEAN, SampleInputs)
  \/ PowerStep
NextChannels == DemodChannels \/ CloseUpstream \/ SetChannels
SpecChannels == InitChannels /\ [][NextChannels]_vars

\* ================================================================= claims
\* A PLL pass has just ended / a whole block has just been delivered
AfterPll == pc = "agc" /\ was_on
AfterAgc == pc = "output" /\ agc
BlockDone == pc \in {"downconvert", "done"} /\ branch # "none"

\* C1: the lock counter always lies in -lock_limit .. +lock_limit.
C1_LockCountClamped == -lock_limit <= lock_count /\ lock_count <= lock_limit
\* a pass that pushed the counter onto the upper bound with samples to spare
C1_Witness ==
  AfterPll /\ lock_limit > 0 /\ lock_count = lock_limit /\ above_run > lock_limit

\* C2: pll_lock changes only in a block that ends with the counter at
\* +lock_limit (to locked) or -lock_limit (to unlocked); a block that ends
\* with the counter strictly inside the bounds leaves pll_lock as it was.
C2_LockFlipsOnlyAtSaturation ==
  /\ (pll_lock # old_pll_lock) =>
       \/ (pll_lock /\ lock_count = lock_limit)
       \/ (~pll_lock /\ lock_count = -lock_limit)
  /\ (-lock_limit < lock_count /\ lock_count < lock_limit) => pll_lock = old_pll_lock
\* a pass that unlocked a locked loop
C2_Witness ==
  AfterPll /\ lock_limit > 0 /\ old_pll_lock /\ ~pll_lock /\ lock_count = -lock_limit

\* squelch_close <= snr <= squelch_open
InDeadZone(s) ==
  s.den # 0 /\ s.num >= squelch_close * s.den /\ s.num <= squelch_open * s.den

\* C3: a PLL pass whose SNR lies in the dead zone, equality with either
\* threshold included, changes neither the lock counter nor the lock boolean.
C3_DeadZoneHolds ==
  [][(pc = "track" /\ InDeadZone(snr'))
       => (lock_count' = lock_count /\ pll_lock' = pll_lock)]_vars
\* a dead-zone pass at snr = squelch_close with the counter off zero and unsaturated
C3_Witness ==
  /\ AfterPll /\ InDeadZone(snr) /\ snr.num = squelch_close * snr.den
  /\ lock_count # 0 /\ -lock_limit < lock_count /\ lock_count < lock_limit

\* C4: once consecutive blocks with snr < squelch_close have covered more
\* than lock_limit samples, the lock boolean is false.
C4_UnlockedAfterLockTime == (pll /\ below_run > lock_limit) => ~pll_lock

\* C5: once blocks with snr > squelch_open have covered at least lock_limit
\* samples, the lock boolean is true and, with a tuned frequency and output
\* power that are not zero, the block is not muted.
C5_LockedAfterLockTime ==
  (pll /\ above_run > 0 /\ above_run >= lock_limit)
    => /\ pll_lock
       /\ (BlockDone /\ freq # 0 /\ ~FEq(output_power, FZero)) => ~mute

\* C6: with the AGC on exactly one branch is taken, the first whose test
\* holds in the order strong, noise, hang, recover; when the strong and the
\* noise test both hold, the ramp goes to headroom/ampl and the hang counter
\* is restarted.
C6_FirstMatchOrder ==
  AfterAgc =>
    /\ branch \in {"strong", "noise", "hang", "recover"}
    /\ branch = "strong" <=> StrongSignal(gain)
    /\ branch = "noise" <=> (~StrongSignal(gain) /\ NoiseAbove(gain))
    /\ (StrongSignal(gain) /\ NoiseAbove(gain)) =>
         /\ gain_change = Ramp(FDiv(headroom, SignalAmpl), gain, N)
         /\ hangcount = hangtime
\* both tests hold, with targets that differ
C6_Witness ==
  /\ AfterAgc /\ StrongSignal(gain) /\ NoiseAbove(gain) /\ branch = "strong"
  /\ FDiv(headroom, SignalAmpl) # FDiv(FMul(threshold, headroom), NoiseAmpl)

\* The end-of-block gain each branch intends
Target ==
  CASE branch = "strong" -> FDiv(headroom, SignalAmpl)
    [] branch = "noise" -> FDiv(FMul(threshold, headroom), NoiseAmpl)
    [] branch = "hang" -> start_gain
    [] branch = "recover" -> FMul(start_gain, recovery_rate)
    [] OTHER -> gain

\* C7: after a block in any of the four output modes the gain equals the
\* target of the AGC branch taken.
C7_RampReachesTarget ==
  (BlockDone /\ branch \in {"strong", "noise", "hang", "recover"}) => FEq(gain, Target)

\* C8: the gain and every gain_change are strictly positive, and no
\* assert(gain_change != 0) fails.
C8_GainPositive ==
  pc # "aborted" /\ FGt(gain, FZero) /\ FGt(gain_change, FZero)

\* C9: the strong branch sets hangcount to hangtime, the noise branch leaves
\* it, the hang branch (taken only when hangcount > 0) decrements it by 1,
\* the recovery branch (taken only when hangcount <= 0) leaves it; and
\* 0 <= hangcount <= hangtime always.
C9_HangCounter ==
  /\ [](0 <= hangcount /\ hangcount <= hangtime)
  /\ [][(pc = "agc" /\ pc' = "output") =>
          /\ branch' = "strong" => hangcount' = hangtime
          /\ branch' = "noise" => hangcount' = hangcount
          /\ branch' = "hang" => (hangcount > 0 /\ hangcount' = hangcount - 1)
          /\ branch' = "recover" => (hangcount <= 0 /\ hangcount' = hangcount)]_vars
\* a noise-branch decision while the hang counter is running
C9_Witness ==
  AfterAgc /\ branch = "noise" /\ hangcount > 0 /\ hangcount < hangtime

C11_AgcOffHoldsGain ==
  [][~agc => (gain_change' = FOne /\ gain' = gain /\ hangcount' = hangcount)]_vars
\* a delivered block of full length whose signal an enabled AGC would have
\* met with the strong-signal branch
C11_Witness ==
  /\ BlockDone /\ ~agc /\ branch = "off" /\ StrongSignal(gain) /\ N = MaxN
  /\ FGt(output_power, FZero) /\ hangtime > 0

\* The gain applied to sample k of the block just delivered (k = N: the gain
\* the block leaves behind)
GainAt(k) ==
  FinalLoop(k, channels, env, FZero, FZero, start_gain, gain_change, FZero).gain

\* C12: a block that took the strong-signal branch has gain_change < 1, a
\* gain that strictly decreases from each sample to the next, and at its end
\* ampl * gain = headroom.
C12_StrongRampsDown ==
  (BlockDone /\ branch = "strong") =>
    /\ FLt(gain_change, FOne)
    /\ \A k \in 0 .. N - 1 : FLt(GainAt(k + 1), GainAt(k))
    /\ FEq(FMul(SignalAmpl, gain), headroom)

\* C13: the mute flag passed to send_output is true iff the block's
\* normalised output power is exactly zero, or the PLL is enabled and the
\* lock boolean is false, or the tuned frequency is zero; an unlocked lock
\* boolean does not mute while the PLL is disabled.
C13_MuteIff ==
  BlockDone =>
    (mute <=> (FEq(output_power, FZero) \/ (pll /\ ~pll_lock) \/ freq = 0))
\* a block sent unmuted with the PLL disabled and the lock boolean false
C13_Witness ==
  BlockDone /\ ~pll /\ ~pll_lock /\ ~mute /\ FGt(output_power, FZero) /\ freq # 0

\* C14: when send_output returns -1 the loop exits at once: the step that
\* got the -1 ends the loop, and nothing runs after the loop has ended (no
\* retry, no further downconvert or send_output).
C14_SendFailureEndsLoop ==
  [][/\ (pc = "output" /\ rc' = -1) => pc' = "done"
     /\ pc # "done"]_vars
\* the loop ended by a failed send_output
C14_Witness == pc = "done" /\ rc = -1 /\ branch # "none"

\* The loop has ended
Terminated == pc \in {"done", "aborted"}

\* C15: the loop terminates exactly when downconvert reports no further
\* block or send_output reports a fatal error; while neither occurs it goes
\* on from block to block; once the block source is closed the loop
\* eventually terminates, and it starts no other block after the closing.
C15_TerminatesOnlyOnEndOrFailure ==
  /\ [][/\ (~Terminated /\ Terminated') =>
            \/ (pc = "downconvert" /\ upstream = "closed")
            \/ (pc = "output" /\ rc' = -1)
        /\ (pc = "downconvert" /\ pc' # pc) =>
            pc' = (IF upstream = "closed" THEN "done" ELSE "pll")
        /\ (pc = "output" /\ pc' # pc) =>
            pc' = (IF rc' = -1 THEN "done" ELSE "downconvert")]_vars
  /\ (upstream = "closed") ~> Terminated

\* The rotation counter that the wrap rule gives for a PLL pass from phase
\* before to phase after: one less when after - before > pi, one more when
\* after - before < -pi, else the same
Unwrapped(before, after, rot) ==
  CASE after - before > HalfTurn -> rot - 1
    [] after - before < -HalfTurn -> rot + 1
    [] OTHER -> rot

\* C16 as claimed: in every block with the PLL enabled the rotation counter
\* changes only by the wrap rule, hence by at most 1.
C16_RotationOnlyOnWrap ==
  [][/\ (pc = "pll" /\ pc' = "track") => rotations' = rotations
     /\ (pc = "track" /\ pc' = "agc") =>
          rotations' = Unwrapped(cphase, cphase', rotations)]_vars

\* C16 amended: the same in every block with the PLL enabled that follows a
\* block with the PLL enabled; the first block after the PLL was off first
\* sets the counter to 0 and then applies the wrap rule.
C16_RotationOnlyOnWrapOnceOn ==
  [][/\ (pc = "pll" /\ pc' = "track") =>
          rotations' = (IF was_on THEN rotations ELSE 0)
     /\ (pc = "track" /\ pc' = "agc") =>
          /\ rotations' = Unwrapped(cphase, cphase', rotations)
          /\ Abs(rotations' - rotations) <= 1]_vars
\* a PLL pass that ends at +pi with the counter two turns down
C16_Witness == AfterPll /\ rotations = -MaxRot /\ cphase = HalfTurn

\* The advance of the true phase, in 0 .. 2 pi, that takes the wrapped phase
\* from before to after
Advance(before, after) == (after - before) % (2 * HalfTurn)
\* a PLL pass over which the phase advanced by more than 0 and less than pi
SteadyIncrease ==
  /\ pc = "track" /\ pc' = "agc"
  /\ Advance(cphase, cphase') \in 1 .. HalfTurn - 1
\* such a pass took the wrapped phase across +pi
CrossedPi == cphase' < cphase
\* the continuous phase in steps of pi / HalfTurn
Reconstructed(phase, rot) == phase + 2 * HalfTurn * rot

\* C17 as claimed: while the phase increases steadily by less than pi per
\* block, the rotation counter is decremented by 1 in each block in which
\* the wrapped phase crosses +pi and is unchanged in the other blocks.
C17_DecrementOnCrossing ==
  [][SteadyIncrease =>
       rotations' = (IF CrossedPi THEN rotations - 1 ELSE rotations)]_vars

\* C17 amended: the counter is incremented by 1 in each such block and
\* unchanged in the others, and cphase + 2 pi rotations increases from
\* block to block.
C17_IncrementOnCrossing ==
  [][SteadyIncrease =>
       /\ rotations' = (IF CrossedPi THEN rotations + 1 ELSE rotations)
       /\ Reconstructed(cphase', rotations') > Reconstructed(cphase, rotations)]_vars
\* a PLL pass that left the wrapped phase below 0 with the counter two turns up
C17_Witness == AfterPll /\ rotations = MaxRot /\ cphase < 0

\* The modelled fields that the status thread reports
telemetry == <<snr, foffset, pll_lock, lock_timer>>

\* C18: the loop writes the telemetry fields only while it holds the
\* channel's status lock.
C18_TelemetryWrittenUnderLock ==
  [][telemetry' # telemetry => status_lock = "demod"]_vars

\* What a PLL pass writes, apart from was_on
pllstate == <<snr, lock_count, pll_lock, lock_timer, rotations, cphase, foffset>>

\* C19: a block that finds the PLL disabled clears was_on and leaves the
\* SNR, the lock counter, the lock boolean, the lock timer, the rotation
\* counter, the stored phase and the frequency offset unchanged up to its
\* end; the first later block that finds the PLL enabled sets was_on and
\* resets the rotation counter and the loop integrator to 0 before it
\* processes any sample.
C19_DisabledPllUntouched ==
  [][/\ (pc = "pll" /\ pc' # pc /\ ~pll) =>
          (pc' = "agc" /\ ~was_on' /\ pllstate' = pllstate)
     /\ (pc \in {"agc", "output"} /\ ~was_on) =>
          (~was_on' /\ pllstate' = pllstate)
     /\ (pc = "pll" /\ pc' # pc /\ pll /\ ~was_on) =>
          (pc' = "track" /\ was_on' /\ rotations' = 0 /\ integrator' = 0)]_vars
\* a PLL just back on, before its first sample: counter and integrator are 0
\* while the phase, the frequency offset and the lock counter of its earlier
\* run are still there
C19_Witness ==
  /\ pc = "track" /\ rotations = 0 /\ integrator = 0
  /\ cphase # 0 /\ foffset # 0 /\ lock_count # 0

\* C20: after every PLL pass the reported SNR is max(signal/noise - 1, 0)
\* when noise is not zero, never negative, and NaN when noise is exactly
\* zero; in both cases the loop goes on to the AGC decision.
C20_SnrClampedOrNaN ==
  AfterPll =>
    /\ noise # 0 =>
         /\ snr.den > 0 /\ snr.num >= 0
         /\ snr.num * noise =
              (IF signal > noise THEN signal - noise ELSE 0) * snr.den
    /\ noise = 0 => snr.den = 0
    /\ ENABLED AgcStep
\* a pass with less in-phase than quadrature power: the SNR is clamped to 0
C20_Witness == AfterPll /\ noise # 0 /\ signal < noise /\ snr.num = 0 /\ snr.den > 0

\* C21: a strong-signal or noise branch whose target gain is not positive
\* leaves gain_change at 1, and the gain at the end of the block equals the
\* gain at its start.
C21_NonPositiveTargetHoldsGain ==
  (BlockDone /\ branch \in {"strong", "noise"} /\ ~FGt(Target, FZero)) =>
    (gain_change = FOne /\ FEq(gain, start_gain))
\* a full-length noise-branch block with target 0 delivered at the held gain
C21_Witness ==
  /\ BlockDone /\ branch = "noise" /\ FEq(Target, FZero) /\ N = MaxN
  /\ gain_change = FOne /\ FEq(gain, start_gain)

\* The per-sample power the block just delivered would have reported in
\* stereo I/Q mode, from the same samples, start gain and gain_change
StereoIqPower ==
  PerSample(FinalLoop(N, 2, FALSE, buffer[1], buffer[2],
                      start_gain, gain_change, FZero).power, N, 2)

\* C22 as claimed: the per-sample power reported by a mono block is twice
\* the per-sample power that stereo I/Q mode reports for the same block.
C22_MonoTwiceStereoIq ==
  (BlockDone /\ channels = 1) => output_power = FMul(FTwo, StereoIqPower)

\* C22 amended: the same for a mono envelope block and for a mono I-channel
\* block whose quadrature parts are zero, whenever the stereo I/Q power is
\* a number.
C22_MonoTwiceStereoIqSamePower ==
  (BlockDone /\ channels = 1 /\ (env \/ buffer[2] = FZero)
     /\ StereoIqPower # FNaN) =>
    output_power = FMul(FTwo, StereoIqPower)
\* a full-length mono envelope block with quadrature parts and a moving gain
C22_Witness ==
  /\ BlockDone /\ channels = 1 /\ env /\ buffer[2] # FZero /\ N = MaxN
  /\ IsFinite(output_power) /\ gain_change # FOne

\* C23: in stereo envelope mode an output sample has left = re * gain and
\* right = 2 |re + i im| * gain, the magnitude being that of the input
\* sample; right is twice the mono envelope output for the same sample and
\* gain.  Stated for the last sample of the block, at the gain it met.
C23_StereoEnvelopeSample ==
  (BlockDone /\ channels = 2 /\ env) =>
    LET g == GainAt(N - 1)
        mag == FHypot(buffer[1], buffer[2])
    IN /\ out.left = FMul(buffer[1], g)
       /\ out.right = FMul(FMul(FTwo, mag), g)
       /\ out.right = FMul(FTwo, OutSample(1, TRUE, buffer[1], buffer[2], g).left)
\* a full-length block with both parts nonzero at a gain that is moving and
\* is not 1 at the last sample
C23_Witness ==
  /\ BlockDone /\ channels = 2 /\ env /\ N = MaxN
  /\ buffer[1] # FZero /\ buffer[2] # FZero
  /\ gain_change # FOne /\ IsFinite(GainAt(N - 1)) /\ GainAt(N - 1) # FOne
  /\ IsFinite(out.right)

\* a running sum that did not go down: NaN is neither above nor equal
NotBelow(a, b) == FGt(a, b) \/ FEq(a, b)

\* C24: over any sequence of blocks output.energy and output.sum_gain_sq
\* never decrease and are never negative.
C24_AccumulatorsMonotone ==
  [][/\ NotBelow(energy', energy) /\ NotBelow(energy', FZero)
     /\ NotBelow(sum_gain_sq', sum_gain_sq) /\ NotBelow(sum_gain_sq', FZero)]_vars

\* loadconfig has converted the section
Configured == pc # "config"

\* C25: whatever the sign of the configured values, loadconfig stores
\* headroom and threshold as voltage ratios <= 1 and > 0, recovery_rate as a
\* ratio >= 1 and hangtime as a block count >= 0.
C25_StoredAgcRanges ==
  Configured =>
    /\ NotBelow(FOne, headroom) /\ FGt(headroom, FZero)
    /\ NotBelow(FOne, threshold) /\ FGt(threshold, FZero)
    /\ NotBelow(recovery_rate, FOne)
    /\ hangtime >= 0

\* C25 as amended: the stored headroom and threshold are <= 1 and >= 0, and
\* are 0 only when the configured magnitude is at or beyond the value whose
\* voltage ratio underflows; recovery_rate >= 1 (+Inf included), hangtime >= 0.
C25_StoredAgcRangesWithUnderflow ==
  Configured =>
    /\ NotBelow(FOne, headroom) /\ NotBelow(headroom, FZero)
    /\ NotBelow(FOne, threshold) /\ NotBelow(threshold, FZero)
    /\ (headroom = FZero) = (Abs(config.headroom) >= -DbFloor)
    /\ (threshold = FZero) = (Abs(config.threshold) >= -DbFloor)
    /\ NotBelow(recovery_rate, FOne)
    /\ hangtime >= 0

\* a section with a positive headroom, a threshold beyond the underflow, a
\* negative recovery-rate and a negative hang-time has been converted
C25_Witness ==
  /\ Configured
  /\ config.headroom > 0 /\ FLt(headroom, FOne) /\ FGt(headroom, FZero)
  /\ config.threshold = DbFloor /\ threshold = FZero
  /\ config.recovery_rate < 0 /\ FGt(recovery_rate, FOne)
  /\ config.hang_time < 0 /\ hangtime > 0

\* C26: after loadconfig the stored squelch_close is never above the stored
\* squelch_open, a configured close above open being replaced by open; so
\* no block has both snr < squelch_close and snr > squelch_open.
C26_CloseNotAboveOpen ==
  /\ Configured =>
       /\ squelch_open = dB2power(config.squelch_open)
       /\ squelch_close <= squelch_open
       /\ (config.squelch_close > config.squelch_open) => squelch_close = squelch_open
  /\ AfterPll => ~(SnrLt(snr, squelch_close) /\ SnrGt(snr, squelch_open))

\* a PLL pass on a channel configured with close above open, whose SNR lies
\* between the two configured values and counted up
C26_Witness ==
  /\ AfterPll
  /\ config.squelch_close > config.squelch_open
  /\ squelch_close = squelch_open
  /\ SnrGt(snr, dB2power(config.squelch_open))
  /\ SnrLt(snr, dB2power(config.squelch_close))
  /\ above_run > 0 /\ below_run = 0

\* the smallest number of bytes that holds x
MinBytes(x) ==
  CHOOSE n \in 0 .. Len(x) :
    /\ \A i \in 1 .. Len(x) - n : x[i] = 0
    /\ n > 0 => x[Len(x) - n + 1] # 0

\* C27: encode_int64 writes the type byte, a length byte L and the L least
\* significant bytes of x, most significant first, with L the smallest
\* number of bytes that holds x; it advances the pointer by 2 + L and returns
\* 2 + L; decode_int on those L bytes gives x back.
C27_EncodeDecodeRoundTrip ==
  LET L == MinBytes(arg.x)
  IN /\ pc \in {"decode", "returned"} =>
          /\ pkt = <<arg.type, L>> \o SubSeq(arg.x, WordBytes - L + 1, WordBytes)
          /\ Len(pkt) = 2 + L
          /\ ret = 2 + L
     /\ pc = "returned" => val = arg.x

\* the round trip of 0, of a one-byte value, of a value with zero bytes
\* inside and of a full-width value
C27_Witness ==
  /\ pc = "returned" /\ val = arg.x
  /\ \/ arg.x = ZeroWord(WordBytes) /\ ret = 2
     \/ MinBytes(arg.x) = 3 /\ arg.x[WordBytes - 1] = 0 /\ arg.x[WordBytes] = 255

\* C28: encode_vector writes, for each of the 63 floats, the 4 bytes of its
\* bit pattern, the most significant first, so that the 252 value bytes give
\* every bit pattern back.
C28_VectorBytesMsbFirst ==
  pc = "returned" =>
    /\ Len(pkt) = 2 + VectorBytes
    /\ \A i \in 1 .. VectorFloats :
         SubSeq(pkt, 2 + FloatBytes * (i - 1) + 1, 2 + FloatBytes * i) = arg.array[i]

\* The value of the first OUTPUT_SSRC option from offset cp on that lies
\* wholly within the first length bytes and precedes any EOL; 0 without one
RECURSIVE FirstSsrc(_, _, _)
FirstSsrc(buf, length, cp) ==
  IF cp + 2 > length \/ buf[cp + 1] = EOL THEN ZeroWord(FloatBytes)
  ELSE LET optlen == buf[cp + 2]
       IN IF cp + 2 + optlen > length THEN ZeroWord(FloatBytes)
          ELSE IF buf[cp + 1] = OUTPUT_SSRC
          THEN ToInt(decode_int(SubSeq(buf, cp + 3, cp + 2 + optlen), optlen))
          ELSE FirstSsrc(buf, length, cp + 2 + optlen)

\* C29: get_ssrc returns the value of the first OUTPUT_SSRC option that lies
\* wholly within the first length bytes and precedes any EOL, and 0 only
\* without such an option or when its value is 0; an option that ends at the
\* last byte of the packet counts.
C29_FirstSsrcReturned ==
  pc = "returned" => ret = FirstSsrc(arg.buffer, arg.length, 0)

\* C30: when a block finds the PLL enabled again, only the rotation counter
\* and the loop integrator are reset; lock_count, pll_lock and the stored
\* phase stay as the last enabled block left them. So if pll_lock was true,
\* the unlocked-PLL condition mutes that block only if the block itself has
\* brought lock_count to -lock_limit.
C30_RestartKeepsLock ==
  [][/\ (pc = "pll" /\ pc' # pc /\ pll /\ ~was_on) =>
          /\ rotations' = 0 /\ integrator' = 0
          /\ lock_count' = lock_count /\ pll_lock' = pll_lock /\ cphase' = cphase
     /\ (pc = "output" /\ pc' # pc /\ restart /\ old_pll_lock
           /\ lock_count # -lock_limit) =>
          /\ ~(pll /\ ~pll_lock)
          /\ mute' = (FEq(output_power', FZero) \/ freq = 0)]_vars

\* a block that found the PLL enabled again with the lock still set, had an
\* SNR below the close threshold and was delivered unmuted
C30_Witness ==
  /\ BlockDone /\ pll /\ restart /\ old_pll_lock /\ pll_lock
  /\ SnrLt(snr, squelch_close) /\ lock_count # -lock_limit /\ ~mute
C32_CorrectionMatchesFormat == BlockDone => (corrected <=> (channels = 1))

\* C33: a call of get_ssrc returns, and every byte it has read lies at an
\* offset 0 .. length - 1 of the buffer.
C33_ReadsWithinLength ==
  pc = "returned" => reads \subseteq 0 .. arg.length - 1

====
